---- MODULE Spec2Model ----
(***************************************************************************)
(* Model of package gm (crypto/gm/sm2.go): SM2 key generation, signature   *)
(* and key codecs, sign/verify and encrypt/decrypt wrappers.               *)
(*                                                                         *)
(* Scale.  The SM2 curve has a 256-bit prime field and a 256-bit prime     *)
(* order, so its field elements, scalars and digests are 32 bytes wide.    *)
(* The model keeps bytes as they are (0..255, tags 0x30 / 0x02, sign bit   *)
(* 0x80) and scales the curve to 16 bits: a prime field P = 3 mod 4,       *)
(* a = P - 3, a prime order N < P with the top bit of its top byte set,    *)
(* as on the SM2 curve.  Every width that the code derives from the curve  *)
(* (SM2PrivateKeyLength, the draw of getRandBytes) is scaled with it to    *)
(* 2 bytes, so that len(N.Bytes()) = SM2PrivateKeyLength as in the code.   *)
(*                                                                         *)
(* The operations of github.com/tjfoc/gmsm/sm2 and of btcec that sm2.go    *)
(* calls are not part of the source tree; they are modelled from the       *)
(* design document (sections 4.1 - 4.4) and marked so in the comments.     *)
(***************************************************************************)
EXTENDS Integers, Sequences, FiniteSets, TLC

VARIABLES
    DefaultUID,   \* the package variable DefaultUID (sm2.go:17)
    pc,           \* position of the caller inside GenerateKey
    key,          \* GenerateKey: the candidate drawn by getRandBytes
    rejected,     \* GenerateKey: a candidate was discarded in this call
    randErr,      \* GenerateKey: rand.Read returned an error
    gen,          \* result of the last GenerateKey call
    sig,          \* the last SM2Sign call: arguments, nonce, result
    ver,          \* the last SM2Verify call: arguments, result
    enc,          \* the last SM2Encrypt call
    dec,          \* the last SM2Decrypt call
    cod           \* the last codec call (signature / private key codec)

vars == <<DefaultUID, pc, key, rejected, randErr, gen, sig, ver, enc, dec, cod>>

(***************************************************************************)
(* Curve parameters: sm2.P256Sm2(), scaled to 16 bits.                     *)
(***************************************************************************)
CurveP == 46327
CurveB == 45
CurveN == 46229
CurveGx == 8
CurveGy == 40764
CurveA == CurveP - 3

\* const SM2PrivateKeyLength (32 for the 256-bit order; the byte length of N)
SM2PrivateKeyLength == 2
\* byte width of a field element and of a digest (32 on the SM2 curve)
FieldLen == 2
HashLen == 2

Byte == 0..255

(***************************************************************************)
(* Byte strings and big integers (math/big): Bytes, SetBytes.              *)
(***************************************************************************)
RECURSIVE BigBytes(_)
\* big.Int.Bytes(): minimal big-endian bytes, empty for zero
BigBytes(v) == IF v = 0 THEN <<>> ELSE Append(BigBytes(v \div 256), v % 256)

RECURSIVE SetBytes(_)
\* big.Int.SetBytes(): big-endian unsigned value of any byte string
SetBytes(b) ==
    IF Len(b) = 0 THEN 0
    ELSE SetBytes(SubSeq(b, 1, Len(b) - 1)) * 256 + b[Len(b)]

Zeros(k) == [i \in 1..k |-> 0]

\* the first k bytes of b (all of b when it is shorter)
Take(b, k) == SubSeq(b, 1, IF k < Len(b) THEN k ELSE Len(b))
\* b without its first k bytes
Drop(b, k) == SubSeq(b, k + 1, Len(b))

RECURSIVE BytesCompare(_, _)
\* bytes.Compare: lexicographic, -1 / 0 / 1
BytesCompare(x, y) ==
    IF Len(x) = 0 /\ Len(y) = 0 THEN 0
    ELSE IF Len(x) = 0 THEN -1
    ELSE IF Len(y) = 0 THEN 1
    ELSE IF x[1] < y[1] THEN -1
    ELSE IF x[1] > y[1] THEN 1
    ELSE BytesCompare(Tail(x), Tail(y))

\* bit i of the natural number v
Bit(v, i) == (v \div (2 ^ i)) % 2

\* x ^ y on bytes
XorByte(x, y) ==
    LET X(i) == ((Bit(x, i) + Bit(y, i)) % 2) * (2 ^ i)
    IN  X(0) + X(1) + X(2) + X(3) + X(4) + X(5) + X(6) + X(7)

(***************************************************************************)
(* Field and curve arithmetic (elliptic.Curve of sm2.P256Sm2()).           *)
(* A point is <<x, y>>; the point at infinity is <<0, 0>>, as Go's         *)
(* elliptic package returns it.                                            *)
(***************************************************************************)
MulMod(a, b, m) == (a * b) % m

\* x^j mod m for j in 0..15, given x^2, x^4, x^8
PowSmallOf(x, x2, x4, x8, j, m) ==
    MulMod(MulMod(IF Bit(j, 0) = 1 THEN x % m ELSE 1, IF Bit(j, 1) = 1 THEN x2 ELSE 1, m),
           MulMod(IF Bit(j, 2) = 1 THEN x4 ELSE 1, IF Bit(j, 3) = 1 THEN x8 ELSE 1, m), m)

PowSmall4(x, x2, x4, j, m) == PowSmallOf(x, x2, x4, MulMod(x4, x4, m), j, m)
PowSmall2(x, x2, j, m) == PowSmall4(x, x2, MulMod(x2, x2, m), j, m)
PowSmall(x, j, m) == PowSmall2(x % m, MulMod(x % m, x % m, m), j, m)

Square(x, m) == MulMod(x, x, m)

RECURSIVE PowMod(_, _, _)
\* x^e mod m, four bits of the exponent at a time
PowMod(x, e, m) ==
    IF e = 0 THEN 1 % m
    ELSE MulMod(Square(Square(Square(Square(PowMod(x, e \div 16, m), m), m), m), m),
                PowSmall(x, e % 16, m), m)

\* inverse modulo a prime m of x with x % m # 0
InvMod(x, m) == PowMod(x, m - 2, m)

Inf == <<0, 0>>

OnCurve(pt) ==
    LET x == pt[1]
        y == pt[2]
        x3 == (((x * x) % CurveP) * x) % CurveP
        ax == (CurveA * x) % CurveP
    IN  /\ x \in 0..(CurveP - 1)
        /\ y \in 0..(CurveP - 1)
        /\ (y * y) % CurveP = (x3 + ax + CurveB) % CurveP

\* the third point of the line of slope lam through (x1, y1), with abscissa x3
LineThird(x1, y1, x3, lam) ==
    <<x3, (((lam * ((x1 + CurveP - x3) % CurveP)) % CurveP) + CurveP - y1) % CurveP>>

\* the sum of (x1, y1) and a point of abscissa x2 on the line of slope lam
Chord(x1, y1, x2, lam) ==
    LineThird(x1, y1, (((lam * lam) % CurveP) + 2 * CurveP - x1 - x2) % CurveP, lam)

PointDouble(p1) ==
    IF p1 = Inf \/ p1[2] = 0 THEN Inf
    ELSE Chord(p1[1], p1[2], p1[1],
               (((3 * ((p1[1] * p1[1]) % CurveP) + CurveA) % CurveP)
                  * InvMod(2 * p1[2], CurveP)) % CurveP)

PointAdd(p1, p2) ==
    IF p1 = Inf THEN p2
    ELSE IF p2 = Inf THEN p1
    ELSE IF p1[1] = p2[1]
         THEN IF p1[2] = p2[2] THEN PointDouble(p1) ELSE Inf
    ELSE Chord(p1[1], p1[2], p2[1],
               (((p2[2] + CurveP - p1[2]) % CurveP)
                  * InvMod((p2[1] + CurveP - p1[1]) % CurveP, CurveP)) % CurveP)

\* j * pt for j in 0..15, given 2 pt, 4 pt, 8 pt
MultSmallOf(pt, d2, d4, d8, j) ==
    PointAdd(PointAdd(IF Bit(j, 0) = 1 THEN pt ELSE Inf, IF Bit(j, 1) = 1 THEN d2 ELSE Inf),
             PointAdd(IF Bit(j, 2) = 1 THEN d4 ELSE Inf, IF Bit(j, 3) = 1 THEN d8 ELSE Inf))

MultSmall4(pt, d2, d4, j) == MultSmallOf(pt, d2, d4, PointDouble(d4), j)
MultSmall2(pt, d2, j) == MultSmall4(pt, d2, PointDouble(d2), j)
MultSmall(pt, j) == MultSmall2(pt, PointDouble(pt), j)

RECURSIVE ScalarMultInt(_, _)
\* k * pt, four bits of the scalar at a time
ScalarMultInt(pt, k) ==
    IF k = 0 THEN Inf
    ELSE PointAdd(PointDouble(PointDouble(PointDouble(PointDouble(
                      ScalarMultInt(pt, k \div 16))))),
                  MultSmall(pt, k % 16))

\* curve.ScalarMult(x, y, k): k is a big-endian byte string
ScalarMult(pt, k) == ScalarMultInt(pt, SetBytes(k))

\* curve.ScalarBaseMult(k)
ScalarBaseMult(k) == ScalarMult(<<CurveGx, CurveGy>>, k)

(***************************************************************************)
(* Package state and codec (sm2.go).                                       *)
(***************************************************************************)
\* the initial value of var DefaultUID: "1234567812345678"
DefaultUIDConst ==
    <<49, 50, 51, 52, 53, 54, 55, 56, 49, 50, 51, 52, 53, 54, 55, 56>>

\* an optional byte string argument: a nil slice, or the bytes b
Nil == [nil |-> TRUE, b |-> <<>>]
Some(b) == [nil |-> FALSE, b |-> b]

\* faulty variant: D is read from pk[1:]
PrivKeyFromBytes_TailD(pk) ==
    [D |-> SetBytes(Drop(pk, 1)), Pub |-> ScalarBaseMult(pk)]

PrivKeyFromBytes(pk) ==
    [D |-> SetBytes(pk), Pub |-> ScalarBaseMult(pk)]

\* faulty variant: the zero bytes are appended after src
paddedAppend_Right(size, dst, src) ==
    dst \o src \o Zeros(IF size > Len(src) THEN size - Len(src) ELSE 0)

paddedAppend(size, dst, src) ==
    dst \o Zeros(IF size > Len(src) THEN size - Len(src) ELSE 0) \o src

SerializePrivateKey(p) ==
    paddedAppend(SM2PrivateKeyLength, <<>>, BigBytes(p.D))

\* faulty variant: no sign padding
canonicalizeInt_NoPad(val) ==
    LET b0 == BigBytes(val)
    IN  IF Len(b0) = 0 THEN <<0>> ELSE b0

canonicalizeInt(val) ==
    LET b0 == BigBytes(val)
        b == IF Len(b0) = 0 THEN <<0>> ELSE b0
    IN  IF b[1] >= 128 THEN <<0>> \o b ELSE b

\* faulty variant: b[1] = byte(length), the header counted in
SerializeSignature_TotalLen(r, s) ==
    LET rb == canonicalizeInt(r)
        sb == canonicalizeInt(s)
        length == 6 + Len(rb) + Len(sb)
    IN  <<48, length % 256, 2, Len(rb) % 256>> \o rb
            \o <<2, Len(sb) % 256>> \o sb

\* faulty variant: b[3] = byte(len(sb))
SerializeSignature_SLenForR(r, s) ==
    LET rb == canonicalizeInt(r)
        sb == canonicalizeInt(s)
        length == 6 + Len(rb) + Len(sb)
    IN  <<48, (length - 2) % 256, 2, Len(sb) % 256>> \o rb
            \o <<2, Len(sb) % 256>> \o sb

SerializeSignature(r, s) ==
    LET rb == canonicalizeInt(r)
        sb == canonicalizeInt(s)
        length == 6 + Len(rb) + Len(sb)
    IN  <<48, (length - 2) % 256, 2, Len(rb) % 256>> \o rb
            \o <<2, Len(sb) % 256>> \o sb

(***************************************************************************)
(* Library operations, modelled from the design document.                  *)
(***************************************************************************)
HashMod == 65521

RECURSIVE HashRange(_, _, _)
\* the bytes b[lo..hi] folded as a binary tree
HashRange(b, lo, hi) ==
    IF lo > hi THEN 1
    ELSE IF lo = hi THEN (b[lo] * 251 + 7) % HashMod
    ELSE LET mid == (lo + hi) \div 2
         IN  (HashRange(b, lo, mid) * 257 + HashRange(b, mid + 1, hi) * 3 + 1) % HashMod

\* a fixed-width big-endian integer
FixedBytes(v, w) == Zeros(IF w > Len(BigBytes(v)) THEN w - Len(BigBytes(v)) ELSE 0) \o BigBytes(v)

\* the hash function: HashLen bytes (a stand-in for the 256-bit hash)
Hash(b) ==
    IF Len(b) >= 0
    THEN FixedBytes((HashRange(b, 1, Len(b)) * 263 + Len(b)) % HashMod, HashLen)
    ELSE <<>>

\* section 4.1 encodePublicKey: parity prefix 0x02 / 0x03, then x
Compress(pt) == <<2 + (pt[2] % 2)>> \o FixedBytes(pt[1], FieldLen)

\* section 4.1 decodePublicKey: y from x and the parity, InvalidPoint otherwise
Decompress(a) ==
    IF Len(a) # 1 + FieldLen \/ a[1] \notin {2, 3}
    THEN [ok |-> FALSE, pt |-> Inf]
    ELSE LET x == SetBytes(Drop(a, 1))
             y2 == (((((x * x) % CurveP) * x) % CurveP)
                      + ((CurveA * (x % CurveP)) % CurveP) + CurveB) % CurveP
             y0 == PowMod(y2, (CurveP + 1) \div 4, CurveP)
             y == IF y0 % 2 = a[1] - 2 THEN y0 ELSE (CurveP - y0) % CurveP
         IN  IF x < CurveP /\ OnCurve(<<x, y>>)
             THEN [ok |-> TRUE, pt |-> <<x, y>>]
             ELSE [ok |-> FALSE, pt |-> Inf]

parsePubKey(pubKeyStr) == Decompress(pubKeyStr)

SerializePublicKey(pt) == Compress(pt)

PubKeyFromPrivate(privKey) == SerializePublicKey(PrivKeyFromBytes(privKey).Pub)

\* section 4.1 decodeSignature: 0x30 LEN 0x02 LEN(r) r 0x02 LEN(s) s, any
\* structural mismatch is MalformedSignature; integers are read as unsigned
\* big-endian, so padding that is not canonical is tolerated
ParseDERSignature(b) ==
    LET bad == [err |-> TRUE, r |-> 0, s |-> 0]
    IN  IF Len(b) < 8 \/ b[1] # 48 \/ b[2] # Len(b) - 2 \/ b[3] # 2 THEN bad
        ELSE LET lr == b[4]
             IN  IF lr < 1 \/ 4 + lr + 3 > Len(b) \/ b[5 + lr] # 2 THEN bad
                 ELSE LET ls == b[6 + lr]
                      IN  IF ls < 1 \/ 6 + lr + ls # Len(b) THEN bad
                          ELSE [err |-> FALSE,
                                r |-> SetBytes(SubSeq(b, 5, 4 + lr)),
                                s |-> SetBytes(SubSeq(b, 7 + lr, 6 + lr + ls))]

DeserializeSignature(sigStr) == ParseDERSignature(sigStr)

\* section 4.2: ZA = Hash(ENTL || ID || a || b || xG || yG || xA || yA)
ZA(pub, uid) ==
    Hash(FixedBytes((Len(uid) * 8) % 65536, 2) \o uid
         \o FixedBytes(CurveA, FieldLen) \o FixedBytes(CurveB, FieldLen)
         \o FixedBytes(CurveGx, FieldLen) \o FixedBytes(CurveGy, FieldLen)
         \o FixedBytes(pub[1], FieldLen) \o FixedBytes(pub[2], FieldLen))

\* section 4.3 step 1: e = Hash(ZA || M) as an integer
Digest(pub, msg, uid) == SetBytes(Hash(ZA(pub, uid) \o msg))

\* section 4.3, signing with the nonce k: "retry" when the nonce is discarded
\* (steps 3 and 4), "fault" when 1 + d has no inverse modulo n
Sm2Sign(priv, msg, uid, k) ==
    LET e == Digest(priv.Pub, msg, uid)
        x1 == ScalarMultInt(<<CurveGx, CurveGy>>, k)[1]
        r == (e + x1) % CurveN
        d1 == (priv.D + 1) % CurveN
        s == (InvMod(d1, CurveN)
               * ((k + CurveN - ((r * (priv.D % CurveN)) % CurveN)) % CurveN)) % CurveN
    IN  IF r = 0 \/ r + k = CurveN THEN [status |-> "retry", r |-> 0, s |-> 0]
        ELSE IF d1 = 0 THEN [status |-> "fault", r |-> 0, s |-> 0]
        ELSE IF s = 0 THEN [status |-> "retry", r |-> 0, s |-> 0]
        ELSE [status |-> "ok", r |-> r, s |-> s]

\* section 4.3, verification
Sm2Verify(pub, msg, uid, r, s) ==
    IF r \notin 1..(CurveN - 1) \/ s \notin 1..(CurveN - 1) THEN FALSE
    ELSE LET e == Digest(pub, msg, uid)
             t == (r + s) % CurveN
         IN  IF t = 0 THEN FALSE
             ELSE LET pt == PointAdd(ScalarMultInt(<<CurveGx, CurveGy>>, s),
                                     ScalarMultInt(pub, t))
                  IN  (e + pt[1]) % CurveN = r

RECURSIVE KDFBlocks(_, _, _)
KDFBlocks(z, ct, blocks) ==
    IF ct > blocks THEN <<>>
    ELSE Hash(z \o FixedBytes(ct, 4)) \o KDFBlocks(z, ct + 1, blocks)

\* the key-derivation function: klen bytes of Hash(z || ct), ct = 1, 2, ...
KDF(z, klen) == Take(KDFBlocks(z, 1, (klen + HashLen - 1) \div HashLen), klen)

XorBytes(x, y) == [i \in 1..Len(x) |-> XorByte(x[i], y[i])]

AllZero(b) == \A i \in 1..Len(b) : b[i] = 0

\* section 4.4, encryption with the ephemeral scalar k: C1 || C3 || C2.
\* "retry" when the scalar is discarded (steps 2 and 3).  The keystream of an
\* empty plaintext is empty; emptyIsZero says whether step 3 counts it as
\* all-zero, which the document leaves open.
Encrypt(pub, data, k, emptyIsZero) ==
    LET c1 == ScalarMultInt(<<CurveGx, CurveGy>>, k)
        p2 == ScalarMultInt(pub, k)
        x2 == FixedBytes(p2[1], FieldLen)
        y2 == FixedBytes(p2[2], FieldLen)
        t == KDF(x2 \o y2, Len(data))
        c3 == Hash(x2 \o data \o y2)
    IN  IF p2 = Inf THEN [status |-> "retry", out |-> <<>>]
        ELSE IF AllZero(t) /\ (Len(data) > 0 \/ emptyIsZero)
             THEN [status |-> "retry", out |-> <<>>]
        ELSE [status |-> "ok",
              out |-> <<4>> \o FixedBytes(c1[1], FieldLen) \o FixedBytes(c1[2], FieldLen)
                          \o c3 \o XorBytes(data, t)]

\* section 4.4, decryption: "malformed" when C1 does not parse, "mac" on MacMismatch
Decrypt(priv, data) ==
    LET bad(e) == [err |-> e, out |-> <<>>]
    IN  IF Len(data) < 1 + 2 * FieldLen + HashLen \/ data[1] # 4 THEN bad("malformed")
        ELSE LET c1 == <<SetBytes(SubSeq(data, 2, 1 + FieldLen)),
                         SetBytes(SubSeq(data, 2 + FieldLen, 1 + 2 * FieldLen))>>
                 c3 == SubSeq(data, 2 + 2 * FieldLen, 1 + 2 * FieldLen + HashLen)
                 c2 == Drop(data, 1 + 2 * FieldLen + HashLen)
             IN  IF ~OnCurve(c1) THEN bad("malformed")
                 ELSE LET p2 == ScalarMultInt(c1, priv.D)
                          x2 == FixedBytes(p2[1], FieldLen)
                          y2 == FixedBytes(p2[2], FieldLen)
                          m == XorBytes(c2, KDF(x2 \o y2, Len(c2)))
                      IN  IF Hash(x2 \o m \o y2) # c3 THEN bad("mac")
                          ELSE [err |-> "", out |-> m]

(***************************************************************************)
(* The exported operations of sm2.go.  The random draw of the library is   *)
(* the parameter k.                                                        *)
(***************************************************************************)
\* SM2Sign: if uid == nil { uid = DefaultUID }
SM2SignUid(uid) == IF uid.nil THEN DefaultUID ELSE uid.b

\* faulty variant: SM2Verify passes a nil uid on
SM2VerifyUid_NoDefault(uid) == uid.b

\* SM2Verify: if uid == nil { uid = DefaultUID }
SM2VerifyUid(uid) == IF uid.nil THEN DefaultUID ELSE uid.b

SM2Sign(msg, privateKey, uid, k) ==
    LET bound == SM2SignUid(uid)
        priv == PrivKeyFromBytes(privateKey)
        res == Sm2Sign(priv, msg, bound, k)
    IN  [status |-> res.status,
         bound |-> bound,
         out |-> IF res.status = "ok" THEN SerializeSignature(res.r, res.s) ELSE <<>>]

\* the bool is all that SM2Verify returns: the error built on a parse failure
\* (fmt.Errorf) is dropped
SM2Verify(publicKey, msg, uid, sigStr) ==
    LET bound == SM2VerifyUid(uid)
        pub == parsePubKey(publicKey)
        d == DeserializeSignature(sigStr)
    IN  IF d.err THEN FALSE
        ELSE Sm2Verify(pub.pt, msg, bound, d.r, d.s)

SM2Encrypt(publicKey, data, k, emptyIsZero) ==
    Encrypt(parsePubKey(publicKey).pt, data, k, emptyIsZero)

SM2Decrypt(privateKey, data) ==
    Decrypt(PrivKeyFromBytes(privateKey), data)

(***************************************************************************)
(* Inputs.                                                                 *)
(***************************************************************************)
MaxSmallKey == 1
MaxSmallNonce == 2
MaxMsgLen == 5
MaxSmallInt == 2
DrawLow == 48
DrawNear == 4

\* private scalars: small ones, the byte and sign-bit boundaries, the top of the range
KeyScalars == (1..MaxSmallKey) \cup {128, 32768, CurveN - 2, CurveN - 1}

\* nonces and ephemeral scalars in [1, n-1]
Nonces == (1..MaxSmallNonce) \cup {255, CurveN - 1}

\* "hello world"
Text == <<104, 101, 108, 108, 111, 32, 119, 111, 114, 108, 100>>
Msgs == {Take(Text, i) : i \in 0..MaxMsgLen}

\* identifiers: absent, the default given explicitly, another one
UIDs == {Nil, Some(DefaultUIDConst), Some(<<65, 76, 73, 67, 69>>)}

\* signature integers in [1, n-1] for the codec
SigInts == (1..MaxSmallInt) \cup {127, 128, 255, 256, 32767, 32768, CurveN - 1}

\* what the random source can deliver to GenerateKey: SM2PrivateKeyLength bytes
DrawVals ==
    {v \in 0..(256 ^ SM2PrivateKeyLength - 1) :
                      \/ v < DrawLow
                      \/ v > 256 ^ SM2PrivateKeyLength - 1 - DrawNear
                      \/ (v >= CurveN - DrawNear /\ v <= CurveN + DrawNear)}
Draws == {FixedBytes(v, SM2PrivateKeyLength) : v \in DrawVals}

KeyBytes(d) == SerializePrivateKey([D |-> d])

\* a key pair other than the ones under test
OtherPriv == KeyBytes(4660)

\* b with its last byte changed
FlipLast(b) ==
    IF Len(b) = 0 THEN b ELSE [b EXCEPT ![Len(b)] = XorByte(b[Len(b)], 1)]

(***************************************************************************)
(* Records of the calls made.                                              *)
(***************************************************************************)
NoGen == [op |-> "none", priv |-> <<>>, pub |-> <<>>]
NoSig == [op |-> "none", priv |-> <<>>, msg |-> <<>>, uid |-> Nil, bound |-> <<>>,
          k |-> 0, err |-> FALSE, out |-> <<>>]
NoVer == [op |-> "none", pub |-> <<>>, msg |-> <<>>, uid |-> Nil, bound |-> <<>>,
          sigStr |-> <<>>, malformed |-> FALSE, out |-> FALSE]
NoEnc == [op |-> "none", priv |-> <<>>, pub |-> <<>>, msg |-> <<>>, k |-> 0,
          err |-> FALSE, out |-> <<>>]
NoDec == [op |-> "none", priv |-> <<>>, data |-> <<>>, err |-> "", out |-> <<>>]
NoCod == [op |-> "none", a |-> 0, b |-> 0, bytes |-> <<>>, err |-> FALSE,
          r |-> 0, s |-> 0]

Init ==
    /\ DefaultUID = DefaultUIDConst
    /\ pc = "idle"
    /\ key = <<>>
    /\ rejected = FALSE
    /\ randErr = FALSE
    /\ gen = NoGen
    /\ sig = NoSig
    /\ ver = NoVer
    /\ enc = NoEnc
    /\ dec = NoDec
    /\ cod = NoCod

\* no call has been made yet.  The operations keep no state between calls
\* (DefaultUID apart), so a behaviour is one call, or one call and the call
\* that consumes its result.
Idle ==
    /\ pc = "idle"
    /\ gen.op = "none" /\ sig.op = "none" /\ ver.op = "none"
    /\ enc.op = "none" /\ dec.op = "none" /\ cod.op = "none"

(***************************************************************************)
(* GenerateKey, one step at a time.                                        *)
(***************************************************************************)
\* priv, pub := PrivKeyFromBytes(privKeyBytes[:]), tabulated over the draws
GeneratedPair ==
    [b \in Draws |->
        LET priv == PrivKeyFromBytes(b)
        IN  [op |-> "gen",
             priv |-> SerializePrivateKey(priv),
             pub |-> SerializePublicKey(priv.Pub)]]

GenerateKeyStart ==
    /\ Idle
    /\ pc' = "draw"
    /\ UNCHANGED <<DefaultUID, key, rejected, randErr, gen, sig, ver, enc, dec, cod>>

\* getRandBytes(32): rand.Read delivered b
getRandBytes(b) ==
    /\ pc = "draw"
    /\ key' = b
    /\ pc' = "check"
    /\ UNCHANGED <<DefaultUID, rejected, randErr, gen, sig, ver, enc, dec, cod>>

\* faulty variant: the error of rand.Read is ignored and the zeroed buffer returned
getRandBytesPanic_Ignored ==
    /\ pc = "draw"
    /\ randErr' = TRUE
    /\ key' = Zeros(SM2PrivateKeyLength)
    /\ pc' = "check"
    /\ UNCHANGED <<DefaultUID, rejected, gen, sig, ver, enc, dec, cod>>

\* getRandBytes(32): rand.Read failed, panic
getRandBytesPanic ==
    /\ pc = "draw"
    /\ randErr' = TRUE
    /\ pc' = "panicked"
    /\ UNCHANGED <<DefaultUID, key, rejected, gen, sig, ver, enc, dec, cod>>

\* if bytes.Compare(key, N.Bytes()) >= 0 { continue }
GenerateKeyRetry ==
    /\ pc = "check"
    /\ BytesCompare(key, BigBytes(CurveN)) >= 0
    /\ pc' = "draw"
    /\ rejected' = TRUE
    /\ UNCHANGED <<DefaultUID, key, randErr, gen, sig, ver, enc, dec, cod>>

\* copy(privKeyBytes[:], key); break; PrivKeyFromBytes; return
GenerateKeyReturn ==
    /\ pc = "check"
    /\ BytesCompare(key, BigBytes(CurveN)) < 0
    /\ LET privKeyBytes == Take(key \o Zeros(SM2PrivateKeyLength), SM2PrivateKeyLength)
       IN  gen' = GeneratedPair[privKeyBytes]
    /\ pc' = "done"
    /\ UNCHANGED <<DefaultUID, key, rejected, randErr, sig, ver, enc, dec, cod>>

GenerateKey ==
    \/ GenerateKeyStart
    \/ \E b \in Draws : getRandBytes(b)
    \/ getRandBytesPanic
    \/ GenerateKeyRetry
    \/ GenerateKeyReturn

(***************************************************************************)
(* Calls of the other exported operations.                                 *)
(***************************************************************************)
\* SM2Sign returns a signature: the library accepted the nonce k
SM2SignCall(d, msg, uid, k) ==
    /\ Idle
    /\ LET res == SM2Sign(msg, KeyBytes(d), uid, k)
       IN  /\ res.status = "ok"
           /\ sig' = [op |-> "sign", priv |-> KeyBytes(d), msg |-> msg, uid |-> uid,
                      bound |-> res.bound, k |-> k, err |-> FALSE, out |-> res.out]
    /\ UNCHANGED <<DefaultUID, pc, key, rejected, randErr, gen, ver, enc, dec, cod>>

\* SM2Sign: sm2.Sm2Sign failed (the random source), return nil, err
SM2SignError(d, msg, uid) ==
    /\ Idle
    /\ sig' = [op |-> "sign", priv |-> KeyBytes(d), msg |-> msg, uid |-> uid,
               bound |-> SM2SignUid(uid), k |-> 0, err |-> TRUE, out |-> <<>>]
    /\ UNCHANGED <<DefaultUID, pc, key, rejected, randErr, gen, ver, enc, dec, cod>>

\* the signature sigStr with its s replaced by another value of [1, n-1]
Tampered(sigStr) ==
    LET d == DeserializeSignature(sigStr)
    IN  SerializeSignature(d.r, (d.s % (CurveN - 1)) + 1)

\* SM2Verify on the signature just made, or on a variation of the call
SM2VerifyCall(pubKey, msg, uid, sigStr) ==
    /\ sig.op = "sign" /\ ~sig.err
    /\ ver.op = "none"
    /\ ver' = [op |-> "verify", pub |-> pubKey, msg |-> msg, uid |-> uid,
               bound |-> SM2VerifyUid(uid), sigStr |-> sigStr,
               malformed |-> DeserializeSignature(sigStr).err,
               out |-> SM2Verify(pubKey, msg, uid, sigStr)]
    /\ UNCHANGED <<DefaultUID, pc, key, rejected, randErr, gen, sig, enc, dec, cod>>

SM2EncryptCall(d, msg, k, emptyIsZero) ==
    /\ Idle
    /\ LET pub == PubKeyFromPrivate(KeyBytes(d))
           res == SM2Encrypt(pub, msg, k, emptyIsZero)
       IN  /\ res.status = "ok"
           /\ enc' = [op |-> "encrypt", priv |-> KeyBytes(d), pub |-> pub, msg |-> msg,
                      k |-> k, err |-> FALSE, out |-> res.out]
    /\ UNCHANGED <<DefaultUID, pc, key, rejected, randErr, gen, sig, ver, dec, cod>>

\* SM2Encrypt: sm2.Encrypt failed (the random source)
SM2EncryptError(d, msg) ==
    /\ Idle
    /\ enc' = [op |-> "encrypt", priv |-> KeyBytes(d),
               pub |-> PubKeyFromPrivate(KeyBytes(d)), msg |-> msg,
               k |-> 0, err |-> TRUE, out |-> <<>>]
    /\ UNCHANGED <<DefaultUID, pc, key, rejected, randErr, gen, sig, ver, dec, cod>>

\* SM2Decrypt on the ciphertext just made, or on a variation of the call
SM2DecryptCall(privateKey, data) ==
    /\ enc.op = "encrypt" /\ ~enc.err
    /\ dec.op = "none"
    /\ LET res == SM2Decrypt(privateKey, data)
       IN  dec' = [op |-> "decrypt", priv |-> privateKey, data |-> data,
                   err |-> res.err, out |-> res.out]
    /\ UNCHANGED <<DefaultUID, pc, key, rejected, randErr, gen, sig, ver, enc, cod>>

\* SerializeSignature, then DeserializeSignature of its result
SignatureCodecCall(r, s) ==
    /\ Idle
    /\ LET b == SerializeSignature(r, s)
           d == DeserializeSignature(b)
       IN  cod' = [op |-> "sig", a |-> r, b |-> s, bytes |-> b, err |-> d.err,
                   r |-> d.r, s |-> d.s]
    /\ UNCHANGED <<DefaultUID, pc, key, rejected, randErr, gen, sig, ver, enc, dec>>

\* SerializePrivateKey, then PrivKeyFromBytes of its result
PrivateKeyCodecCall(d) ==
    /\ Idle
    /\ LET b == SerializePrivateKey([D |-> d])
       IN  cod' = [op |-> "priv", a |-> d, b |-> 0, bytes |-> b, err |-> FALSE,
                   r |-> PrivKeyFromBytes(b).D, s |-> 0]
    /\ UNCHANGED <<DefaultUID, pc, key, rejected, randErr, gen, sig, ver, enc, dec>>

\* an importer of the package assigns the exported variable DefaultUID
WriteDefaultUID(u) ==
    /\ u # DefaultUID
    /\ DefaultUID' = u
    /\ UNCHANGED <<pc, key, rejected, randErr, gen, sig, ver, enc, dec, cod>>

Sign ==
    \/ \E d \in KeyScalars, msg \in Msgs, uid \in UIDs, k \in Nonces :
           SM2SignCall(d, msg, uid, k)
    \/ \E d \in KeyScalars, msg \in Msgs, uid \in UIDs : SM2SignError(d, msg, uid)

\* the verifications tried on a signature: the signer's own call under each
\* identifier, and the call with one argument changed
VerifyArgs ==
    LET own == [pub |-> PubKeyFromPrivate(sig.priv), msg |-> sig.msg,
                uid |-> sig.uid, sigStr |-> sig.out]
    IN  {[own EXCEPT !.uid = u] : u \in UIDs}
        \cup {[own EXCEPT !.pub = PubKeyFromPrivate(OtherPriv)],
              [own EXCEPT !.msg = sig.msg \o <<112>>],
              [own EXCEPT !.sigStr = Take(sig.out, Len(sig.out) - 1)],
              [own EXCEPT !.sigStr = Tampered(sig.out)]}

Verify ==
    /\ sig.op = "sign" /\ ~sig.err /\ ver.op = "none"
    /\ \E a \in VerifyArgs : SM2VerifyCall(a.pub, a.msg, a.uid, a.sigStr)

Cipher ==
    \/ \E d \in KeyScalars, msg \in Msgs, k \in Nonces, emptyIsZero \in BOOLEAN :
           SM2EncryptCall(d, msg, k, emptyIsZero)
    \/ \E d \in KeyScalars, msg \in Msgs : SM2EncryptError(d, msg)
    \/ /\ enc.op = "encrypt" /\ ~enc.err /\ dec.op = "none"
       /\ \E privateKey \in {enc.priv, OtherPriv},
             data \in {enc.out, FlipLast(enc.out), Take(enc.out, 1 + FieldLen)} :
              SM2DecryptCall(privateKey, data)

Codec ==
    \/ \E r \in SigInts, s \in SigInts : SignatureCodecCall(r, s)
    \/ \E d \in KeyScalars \cup SigInts : PrivateKeyCodecCall(d)

Next == GenerateKey \/ Sign \/ Verify \/ Cipher \/ Codec

\* the package on its own: nothing in sm2.go assigns DefaultUID
Spec == Init /\ [][Next]_vars

\* the package inside a program whose other code may assign DefaultUID
AmbientNext ==
    \/ Sign
    \/ Verify
    \/ \E u \in {DefaultUIDConst, <<65, 76, 73, 67, 69>>} : WriteDefaultUID(u)

AmbientSpec == Init /\ [][AmbientNext]_vars

\* the random source delivers a value below n, or fails
SourceBelowNOrFails ==
    \/ \E b \in Draws : BytesCompare(b, BigBytes(CurveN)) < 0 /\ getRandBytes(b)
    \/ getRandBytesPanic

\* GenerateKey under a source that eventually delivers a value below n or fails
FairSpec ==
    /\ Init
    /\ [][GenerateKey]_vars
    /\ WF_vars(GenerateKeyRetry)
    /\ WF_vars(GenerateKeyReturn)
    /\ SF_vars(SourceBelowNOrFails)

(***************************************************************************)
(* Properties.                                                             *)
(***************************************************************************)
RECURSIVE BEValue(_)
\* the unsigned big-endian value of a byte string, most significant byte first
BEValue(b) ==
    IF Len(b) = 0 THEN 0 ELSE b[1] * (256 ^ (Len(b) - 1)) + BEValue(Tail(b))

\* SM2Verify was called with the signer's own public key, message and signature
OwnVerify ==
    /\ sig.op = "sign" /\ ~sig.err
    /\ ver.op = "verify"
    /\ ver.pub = PubKeyFromPrivate(sig.priv)
    /\ ver.msg = sig.msg
    /\ ver.sigStr = sig.out

\* C1: a signature that SM2Sign returned for the key d, the message and the
\* identifier (absent or given), whatever the nonce, is accepted by SM2Verify
\* under the public key of d, the same message and the same identifier.
C1_SignThenVerify == (OwnVerify /\ ver.uid = sig.uid) => ver.out

C1_Witness ==
    /\ OwnVerify /\ ver.uid = sig.uid /\ ver.out
    /\ sig.uid = Nil
    /\ SetBytes(sig.priv) = CurveN - 2
    /\ sig.k = CurveN - 1

\* C2: DeserializeSignature(SerializeSignature(r, s)) is (r, s) with no error,
\* for r and s in [1, n-1].
C2_SignatureRoundTrip ==
    cod.op = "sig" => (~cod.err /\ cod.r = cod.a /\ cod.s = cod.b)

C2_Witness ==
    /\ cod.op = "sig" /\ cod.a = 128 /\ cod.b = CurveN - 1
    /\ ~cod.err /\ cod.r = 128 /\ cod.s = CurveN - 1

\* body is the canonical encoding of v >= 1: the minimal big-endian bytes of
\* v, with one zero byte in front exactly when their first byte has its high
\* bit set
CanonicalBody(body, v) ==
    /\ Len(body) >= 1
    /\ BEValue(body) = v
    /\ body[1] < 128
    /\ body[1] = 0 => (Len(body) > 1 /\ body[2] >= 128)

\* C3: SerializeSignature(r, s) is 0x30 LEN 0x02 LEN(r) r 0x02 LEN(s) s, LEN
\* the length of what follows it, LEN(r) and LEN(s) the lengths of the
\* bodies, each body canonical (so its first byte never has the high bit set).
C3_SignatureLayout ==
    cod.op = "sig" =>
        LET b == cod.bytes
            lr == b[4]
            ls == b[6 + lr]
        IN  /\ Len(b) >= 8
            /\ b[1] = 48
            /\ b[2] = Len(b) - 2
            /\ b[3] = 2
            /\ lr >= 1 /\ 6 + lr < Len(b)
            /\ b[5 + lr] = 2
            /\ ls = Len(b) - 6 - lr
            /\ CanonicalBody(SubSeq(b, 5, 4 + lr), cod.a)
            /\ CanonicalBody(SubSeq(b, 7 + lr, Len(b)), cod.b)

C3_Witness ==
    /\ cod.op = "sig" /\ cod.a = 32768 /\ cod.b = 1
    /\ cod.bytes = <<48, 8, 2, 3, 0, 128, 0, 2, 1, 1>>

\* C4: SerializePrivateKey(d) is SM2PrivateKeyLength bytes, the big-endian d
\* padded with zero bytes on the left, and PrivKeyFromBytes of them has D = d.
C4_PrivateKeyRoundTrip ==
    cod.op = "priv" =>
        /\ Len(cod.bytes) = SM2PrivateKeyLength
        /\ BEValue(cod.bytes) = cod.a
        /\ cod.r = cod.a

C4_Witness ==
    /\ cod.op = "priv" /\ cod.a = 1
    /\ cod.bytes = Zeros(SM2PrivateKeyLength - 1) \o <<1>>
    /\ cod.r = 1

\* the identifier was absent on one side and "1234567812345678" on the other
DefaultOnOneSide ==
    \/ sig.uid = Nil /\ ver.uid = Some(DefaultUIDConst)
    \/ sig.uid = Some(DefaultUIDConst) /\ ver.uid = Nil

\* C5: with no identifier given, SM2Sign and SM2Verify use "1234567812345678":
\* a signature made with the identifier absent verifies with that value given,
\* and one made with that value given verifies with the identifier absent.
C5_DefaultIdentifier ==
    (OwnVerify /\ DefaultOnOneSide) =>
        /\ ver.out
        /\ sig.bound = DefaultUIDConst
        /\ ver.bound = DefaultUIDConst

C5_Witness ==
    /\ OwnVerify /\ sig.uid = Nil /\ ver.uid = Some(DefaultUIDConst)
    /\ ver.out /\ Len(sig.msg) = MaxMsgLen

\* SM2Decrypt was called with the private key of the key pair encrypted to,
\* on the ciphertext SM2Encrypt returned
OwnDecrypt ==
    /\ enc.op = "encrypt" /\ ~enc.err
    /\ dec.op = "decrypt"
    /\ dec.priv = enc.priv
    /\ dec.data = enc.out

\* C6: SM2Decrypt(d, c) is the plaintext, for every c that SM2Encrypt returned
\* for the public key of d, whatever the ephemeral scalar.
C6_EncryptThenDecrypt == OwnDecrypt => (dec.err = "" /\ dec.out = enc.msg)

C6_Witness ==
    /\ OwnDecrypt /\ dec.err = "" /\ dec.out = enc.msg
    /\ Len(enc.msg) > HashLen
    /\ SetBytes(enc.priv) = CurveN - 1

\* C7: every private key GenerateKey returns encodes d with 1 <= d <= n-1.
C7_GeneratedKeyInRange ==
    gen.op = "gen" => SetBytes(gen.priv) \in 1..(CurveN - 1)

\* the signatures that parse and that SM2Verify rejects for the call made
WellFormedRejected ==
    {t \in {Tampered(sig.out)} :
        /\ ~DeserializeSignature(t).err
        /\ ~SM2Verify(ver.pub, ver.msg, ver.uid, t)}

\* C8: what SM2Verify gives for a signature that does not parse differs from
\* what it gives for a well-formed signature that does not verify.
C8_MalformedDistinguished ==
    (ver.op = "verify" /\ ver.malformed) =>
        \A t \in WellFormedRejected : SM2Verify(ver.pub, ver.msg, ver.uid, t) # ver.out

\* C9: the identifier a call with an absent uid binds into the digest is the
\* default constant, whatever else the program does between or during calls,
\* so the signer's own call with the identifier absent on both sides verifies.
C9_NoAmbientIdentifier ==
    /\ (sig.op = "sign" /\ sig.uid = Nil) => sig.bound = DefaultUIDConst
    /\ (ver.op = "verify" /\ ver.uid = Nil) => ver.bound = DefaultUIDConst
    /\ (OwnVerify /\ sig.uid = Nil /\ ver.uid = Nil) => ver.out

BelowN(b) == BEValue(b) < CurveN

\* C10: in GenerateKey a candidate not below n is discarded and a fresh one
\* drawn; the first candidate below n is the key returned; a failure of the
\* random source ends the call at once, with no key and no further step; and
\* under a source that eventually delivers a value below n or fails, the call
\* terminates.
C10_GenerateKeyLoop ==
    /\ [][(pc = "check" /\ ~BelowN(key)) => (pc' = "draw" /\ gen' = gen)]_vars
    /\ [][(pc = "check" /\ BelowN(key)) =>
             (pc' = "done" /\ gen'.op = "gen" /\ gen'.priv = key)]_vars
    /\ [][randErr' => (pc' = "panicked" /\ gen'.op = "none")]_vars
    /\ [][pc = "panicked" => UNCHANGED <<pc, key, gen>>]_vars
    /\ (pc = "draw") ~> (pc \in {"done", "panicked"})

C10_Witness == pc = "done" /\ rejected /\ gen.op = "gen" /\ gen.priv = key

====
